---- MODULE Spec2Model ----
(***************************************************************************)
(* A model of the ordinal-regression target model                          *)
(* (finetune/target_models/ordinal_regressor.py) and of the HuggingFace    *)
(* adapter (finetune/util/huggingface_interface.py).                       *)
(*                                                                         *)
(* Four specifications share the module, one per component:                *)
(*   SpecPredict  OrdinalRegressor.predict, the fold over the chunk stream *)
(*   SpecHead     predict_proba, finetune and the comparison _target_model *)
(*   SpecFeat     HuggingFaceEncoder.__init__ and finetune_featurizer      *)
(*   SpecImport   load_weights_from_hdf5_group_by_name                     *)
(* Each one leaves the variables of the other components at their idle     *)
(* values.                                                                 *)
(***************************************************************************)
EXTENDS Integers, Sequences, FiniteSets, TLC

\* ------------------------------------------------------------------------
\* Bounds of the model
\* ------------------------------------------------------------------------
MaxChunks == 3
MaxLabel == 2
MaxVal == 1
MaxCalls == 2
MaxSeqLen == 3
MaxTok == 2
MaxLayers == 2
MaxNameLen == 2
MaxRules == 2

\* Python's None, for values that are either None or a natural number.
None == -1

\* ------------------------------------------------------------------------
\* State
\* ------------------------------------------------------------------------
VARIABLES
  \* OrdinalRegressor.predict
  chunks,       \* the tuples process_long_sequence yields, in order
  idx,          \* how many tuples the for loop has finished
  doc_labels,   \* the local doc_labels: unbound, a list or an ndarray
  all_labels,   \* the local all_labels
  pc,           \* "loop", "returned" or "raised"
  exc,          \* the exception that left predict, "none" if none
  \* the model object and its target model
  cls,              \* the class of the model object
  fitted,           \* whether finetune has run
  featurizer_in,    \* the featurizer_state handed to _target_model
  featurizer_state, \* the same dict, as _target_model has left it
  hidden,           \* the hidden argument ordinal_regressor received
  tm_done,          \* whether _target_model has run
  proba_calls,      \* the number of predict_proba calls so far
  proba_outcome,    \* how the latest predict_proba call ended
  \* HuggingFaceEncoder and finetune_featurizer
  tokenizer,        \* the wrapped tokenizer's sep_token_id and eos_token_id
  delimiter_token,  \* encoder.delimiter_token
  tokens,           \* X after the reshape of line 51: a batch of rows
  low_memory_mode,  \* config.low_memory_mode
  train,            \* the train argument
  n_layers,         \* the number of encoder layers of the wrapped model
  layer_call,       \* per encoder layer, what its __call__ is bound to
  wrappers_made,    \* the number of recompute_grad wrappers constructed
  token_type_ids,   \* line 55
  eos_idx,          \* lines 59-65
  lengths,          \* line 67
  mask,             \* line 68
  forward_calls,    \* the number of calls of hf_model (line 88)
  feat_pc,          \* "new", "ready", "done" or "raised"
  feat_exc,         \* the exception that left finetune_featurizer
  \* load_weights_from_hdf5_group_by_name
  file,             \* the archive: its layout and its layers of named weights
  weights_replacement, \* the (from, to) rules, in order
  weight_lookup,    \* the dict under construction
  done_weights,     \* how many weights the two loops have stored
  imp_pc            \* "loading" or "returned"

predictVars == <<chunks, idx, doc_labels, all_labels, pc, exc>>
headVars ==
  <<cls, fitted, featurizer_in, featurizer_state, hidden, tm_done,
    proba_calls, proba_outcome>>
featVars ==
  <<tokenizer, delimiter_token, tokens, low_memory_mode, train, n_layers,
    layer_call, wrappers_made, token_type_ids, eos_idx, lengths, mask,
    forward_calls, feat_pc, feat_exc>>
impVars == <<file, weights_replacement, weight_lookup, done_weights, imp_pc>>
vars == <<predictVars, headVars, featVars, impVars>>

\* ------------------------------------------------------------------------
\* Generic helpers
\* ------------------------------------------------------------------------
SeqsUpTo(S, n) == UNION {[1..k -> S] : k \in 0..n}

SetMax(S) == CHOOSE m \in S : \A x \in S : x <= m

SetMin(S) == CHOOSE m \in S : \A x \in S : m <= x

\* ------------------------------------------------------------------------
\* OrdinalRegressor.predict
\* ------------------------------------------------------------------------
Labels == 0..MaxLabel

\* One tuple of process_long_sequence, reduced to the three fields predict reads.
Chunk == [start_of_doc : BOOLEAN, end_of_doc : BOOLEAN, label : Labels]

Unbound == [kind |-> "unbound", items |-> <<>>]
PredictIdle ==
  /\ chunks = <<>>
  /\ idx = 0
  /\ doc_labels = Unbound
  /\ all_labels = <<>>
  /\ pc = "idle"
  /\ exc = "none"

\* The label space's decode of one ordinal code: a bijection that is not the
\* identity.
ClassOf(code) == 100 + 10 * code

\* label_encoder.inverse_transform on an array of codes.
inverse_transform(codes) == [k \in DOMAIN codes |-> ClassOf(codes[k])]

\* np.unique as scipy's mode uses it: the distinct values, ascending.
RECURSIVE SortedUnique(_)
SortedUnique(S) ==
  IF S = {} THEN <<>>
  ELSE LET m == SetMin(S) IN <<m>> \o SortedUnique(S \ {m})

CountOf(s, v) == Cardinality({i \in DOMAIN s : s[i] = v})

\* np.argmax: the first index of the maximum.
np_argmax(s) ==
  CHOOSE i \in DOMAIN s :
    /\ \A j \in DOMAIN s : s[j] <= s[i]
    /\ \A j \in DOMAIN s : j < i => s[j] < s[i]

\* The last index of the maximum instead of the first.
np_argmax_last(s) ==
  CHOOSE i \in DOMAIN s :
    /\ \A j \in DOMAIN s : s[j] <= s[i]
    /\ \A j \in DOMAIN s : j > i => s[j] < s[i]

\* A mode that breaks ties towards the highest value.
mode_highest_on_tie(items) ==
  LET vals == SortedUnique({items[i] : i \in DOMAIN items})
      counts == [k \in DOMAIN vals |-> CountOf(items, vals[k])]
  IN vals[np_argmax_last(counts)]

\* scipy.stats.mode(a).mode of a one-dimensional array: the counts of the
\* sorted distinct values, and the value at the first maximal count.
mode(items) ==
  LET vals == SortedUnique({items[i] : i \in DOMAIN items})
      counts == [k \in DOMAIN vals |-> CountOf(items, vals[k])]
  IN vals[np_argmax(counts)]

\* Lines 58-60: a start_of_doc tuple rebinds doc_labels to a fresh list.
AfterStart(c, dl) ==
  IF c.start_of_doc THEN [kind |-> "list", items |-> <<>>] ELSE dl

\* Line 62 succeeds only on a list: an unbound local raises
\* UnboundLocalError, an ndarray has no append and raises AttributeError.
AppendError(dl) ==
  CASE dl.kind = "list" -> "none"
    [] dl.kind = "unbound" -> "UnboundLocalError"
    [] dl.kind = "ndarray" -> "AttributeError"

\* Line 67 without the rebinding: doc_labels stays a list after a document.
AsArrayKeepsList(dl) == dl

\* Line 67: doc_labels is rebound to an ndarray of the same items.
AsArray(dl) == [kind |-> "ndarray", items |-> dl.items]

\* Lines 68-70: the decoded mode, as the one-element list label.tolist() gives.
DocLabel(arr) == inverse_transform(<<mode(arr.items)>>)

\* The loop body with the test of line 64 on start_of_doc instead of
\* end_of_doc.
LoopBodyEmitsOnStart(st, c) ==
  LET dl1 == AfterStart(c, st.doc_labels)
      dl2 == [dl1 EXCEPT !.items = Append(dl1.items, c.label)]
  IN IF AppendError(dl1) # "none"
     THEN [st EXCEPT !.doc_labels = dl1, !.pc = "raised", !.exc = AppendError(dl1)]
     ELSE IF c.start_of_doc
          THEN [st EXCEPT !.doc_labels = AsArray(dl2),
                          !.all_labels = Append(st.all_labels, DocLabel(AsArray(dl2))),
                          !.idx = st.idx + 1]
          ELSE [st EXCEPT !.doc_labels = dl2, !.idx = st.idx + 1]

\* Lines 57-70: one iteration of the for loop on tuple c.
LoopBody(st, c) ==
  LET dl1 == AfterStart(c, st.doc_labels)
      dl2 == [dl1 EXCEPT !.items = Append(dl1.items, c.label)]
  IN IF AppendError(dl1) # "none"
     THEN [st EXCEPT !.doc_labels = dl1, !.pc = "raised", !.exc = AppendError(dl1)]
     ELSE IF c.end_of_doc
          THEN [st EXCEPT !.doc_labels = AsArray(dl2),
                          !.all_labels = Append(st.all_labels, DocLabel(AsArray(dl2))),
                          !.idx = st.idx + 1]
          ELSE [st EXCEPT !.doc_labels = dl2, !.idx = st.idx + 1]

PredictState ==
  [doc_labels |-> doc_labels, all_labels |-> all_labels, idx |-> idx,
   pc |-> pc, exc |-> exc]

\* Line 56 and the state before the first iteration, for every stream the
\* chunking stage may hand over.
PredictInit ==
  /\ chunks \in SeqsUpTo(Chunk, MaxChunks)
  /\ idx = 0
  /\ doc_labels = Unbound
  /\ all_labels = <<>>
  /\ pc = "loop"
  /\ exc = "none"

\* One iteration of the loop of line 57.
PredictStep ==
  /\ pc = "loop"
  /\ idx < Len(chunks)
  /\ LET st == LoopBody(PredictState, chunks[idx + 1])
     IN /\ doc_labels' = st.doc_labels
        /\ all_labels' = st.all_labels
        /\ idx' = st.idx
        /\ pc' = st.pc
        /\ exc' = st.exc
  /\ UNCHANGED chunks
  /\ UNCHANGED <<headVars, featVars, impVars>>

\* Line 71: the stream is exhausted and all_labels is returned.
PredictReturn ==
  /\ pc = "loop"
  /\ idx = Len(chunks)
  /\ pc' = "returned"
  /\ UNCHANGED <<chunks, idx, doc_labels, all_labels, exc>>
  /\ UNCHANGED <<headVars, featVars, impVars>>

\* ------------------------------------------------------------------------
\* The model object: finetune, predict_proba, _target_model
\* ------------------------------------------------------------------------
Vals == (0 - MaxVal)..MaxVal

\* A feature tensor with the two documents of a pair on axis 1: one vector
\* per document.
PairTensor == [1..2 -> [1..1 -> Vals]]

\* The featurizer_state dicts: "context" is an optional key.
FeaturizerStates ==
  [{"features", "sequence_features"} -> PairTensor]
    \cup [{"features", "sequence_features", "context"} -> PairTensor]

NoOutcome == [raised |-> FALSE, exc |-> "none", returned |-> FALSE]

abs(x) == IF x < 0 THEN 0 - x ELSE x

\* The first document's entry instead of the sum over the document axis.
reduce_sum_first_doc(t) == t[1]

\* tf.reduce_sum(t, 1): the sum over the document axis, component by
\* component.
RECURSIVE reduce_sum_upto(_, _)
reduce_sum_upto(t, n) ==
  IF n = 0 THEN [k \in DOMAIN t[1] |-> 0]
  ELSE LET rest == reduce_sum_upto(t, n - 1)
       IN [k \in DOMAIN t[1] |-> rest[k] + t[n][k]]

reduce_sum(t) == reduce_sum_upto(t, Len(t))

\* tf.abs, component by component.
tf_abs(v) == [k \in DOMAIN v |-> abs(v[k])]

\* Lines 141-150: the three keys are overwritten in place, "context" only
\* when the dict has it.
ComparisonTransform(fs) ==
  [key \in DOMAIN fs |-> tf_abs(reduce_sum(fs[key]))]

\* A predict_proba that raises only on a model that is not fitted.
predict_proba_returns_when_fitted(isFitted) ==
  IF isFitted
  THEN [raised |-> FALSE, exc |-> "none", returned |-> TRUE]
  ELSE [raised |-> TRUE, exc |-> "AttributeError", returned |-> FALSE]

\* Lines 73-80: OrdinalRegressor.predict_proba, whatever the model's state.
predict_proba(isFitted) ==
  [raised |-> TRUE, exc |-> "AttributeError", returned |-> FALSE]

Classes == {"OrdinalRegressor", "ComparisonOrdinalRegressor"}

\* The methods each class body defines (lines 33-110 and 122-159).
Defines(c) ==
  IF c = "OrdinalRegressor"
  THEN {"__init__", "_get_input_pipeline", "featurize", "predict",
        "predict_proba", "finetune", "_target_model", "_predict_op",
        "_predict_proba_op"}
  ELSE {"predict", "_get_input_pipeline", "_target_model"}

\* Line 113: ComparisonOrdinalRegressor(OrdinalRegressor); a method is looked
\* up in the class itself, then in its base.
Resolve(c, method) ==
  IF method \in Defines(c) THEN c ELSE "OrdinalRegressor"

HeadInit ==
  /\ cls \in Classes
  /\ fitted = FALSE
  /\ featurizer_in \in FeaturizerStates
  /\ featurizer_state = featurizer_in
  /\ hidden = <<>>
  /\ tm_done = FALSE
  /\ proba_calls = 0
  /\ proba_outcome = NoOutcome

HeadIdle ==
  /\ cls = "OrdinalRegressor"
  /\ fitted = FALSE
  /\ featurizer_in = <<>>
  /\ featurizer_state = <<>>
  /\ hidden = <<>>
  /\ tm_done = FALSE
  /\ proba_calls = 0
  /\ proba_outcome = NoOutcome

\* Lines 82-89: finetune.
Finetune ==
  /\ ~fitted
  /\ fitted' = TRUE
  /\ UNCHANGED <<cls, featurizer_in, featurizer_state, hidden, tm_done,
                 proba_calls, proba_outcome>>
  /\ UNCHANGED <<predictVars, featVars, impVars>>

\* Lines 73-80, reached from either class.
PredictProba ==
  /\ proba_calls < MaxCalls
  /\ Resolve(cls, "predict_proba") = "OrdinalRegressor"
  /\ proba_calls' = proba_calls + 1
  /\ proba_outcome' = predict_proba(fitted)
  /\ UNCHANGED <<cls, fitted, featurizer_in, featurizer_state, hidden, tm_done>>
  /\ UNCHANGED <<predictVars, featVars, impVars>>

\* Lines 138-159 for the comparison class, lines 91-104 for both: the ordinal
\* head receives featurizer_state["features"] as hidden.  BaseModel's
\* _add_context_embed (line 94) is outside this file and left out.
TargetModel ==
  /\ ~tm_done
  /\ featurizer_state' =
       IF Resolve(cls, "_target_model") = "ComparisonOrdinalRegressor"
       THEN ComparisonTransform(featurizer_state)
       ELSE featurizer_state
  /\ hidden' = featurizer_state'["features"]
  /\ tm_done' = TRUE
  /\ UNCHANGED <<cls, fitted, featurizer_in, proba_calls, proba_outcome>>
  /\ UNCHANGED <<predictVars, featVars, impVars>>


\* ------------------------------------------------------------------------
\* HuggingFaceEncoder.__init__ and finetune_featurizer
\* ------------------------------------------------------------------------
TokenIds == 0..MaxTok

OptionalIds == TokenIds \cup {None}

Rows == UNION {[1..n -> TokenIds] : n \in 1..MaxSeqLen}

\* Python's a or b on token ids: None and 0 are both falsy.
PyOr(a, b) == IF a # None /\ a # 0 THEN a ELSE b

\* An equality test that takes None as an operand equal to no token.
tf_equal_accepts_none(d) == "none"

\* tf.equal(X, d) of line 53 converts d to a tensor: None has no tensor
\* conversion and the call raises ValueError.
tf_equal_error(d) == IF d = None THEN "ValueError" ELSE "none"

\* Line 53: the 0/1 indicator of the delimiter token.
Delimiters(row, d) == [i \in DOMAIN row |-> IF row[i] = d THEN 1 ELSE 0]

\* Line 55: tf.cumsum(exclusive=True), the delimiters strictly before i.
token_type_ids_of(delims) ==
  [i \in DOMAIN delims |-> Cardinality({j \in 1..(i - 1) : delims[j] = 1})]

\* The indicator alone, without the multiplication by the ramp.
MaskedRampWithoutRamp(delims) == delims

\* Lines 60-63: the indicator times the ramp 0, 1, ..., seq_length - 1.
MaskedRamp(delims) == [i \in DOMAIN delims |-> delims[i] * (i - 1)]

\* tf.argmax over one row: a zero-based position of the maximum; which one
\* when the maximum occurs more than once is not guaranteed.
tf_argmax_choices(v) ==
  {i - 1 : i \in {j \in DOMAIN v : \A k \in DOMAIN v : v[k] <= v[j]}}

\* finetune.util.shapes.lengths_from_eos_idx: the positions up to and
\* including eos_idx are valid.
lengths_from_eos_idx(e, max_length) ==
  IF e + 1 <= max_length THEN e + 1 ELSE max_length

\* tf.sequence_mask(lengths, maxlen=seq_length) for one row.
sequence_mask(len, maxlen) == [i \in 1..maxlen |-> IF i <= len THEN 1 ELSE 0]

\* Lines 73-77: the loop body compares layer.__call__ with the wrapper
\* recompute_grad returns (==) and drops the result: nothing is assigned.
LowMemoryLayers(calls, low, tr) ==
  IF low /\ tr THEN [l \in DOMAIN calls |-> calls[l]] ELSE calls

\* The wrappers the loop of lines 74-77 constructs.
WrappersMade(calls, low, tr) == IF low /\ tr THEN Len(calls) ELSE 0

FeatInit ==
  /\ tokenizer \in [sep_token_id : OptionalIds, eos_token_id : OptionalIds]
  /\ delimiter_token = None
  /\ tokens \in {<<row>> : row \in Rows}
  /\ low_memory_mode \in BOOLEAN
  /\ train \in BOOLEAN
  /\ n_layers \in 1..MaxLayers
  /\ layer_call = <<>>
  /\ wrappers_made = 0
  /\ token_type_ids = <<>>
  /\ eos_idx = <<>>
  /\ lengths = <<>>
  /\ mask = <<>>
  /\ forward_calls = 0
  /\ feat_pc = "new"
  /\ feat_exc = "none"

FeatIdle ==
  /\ tokenizer = [sep_token_id |-> None, eos_token_id |-> None]
  /\ delimiter_token = None
  /\ tokens = <<>>
  /\ low_memory_mode = FALSE
  /\ train = FALSE
  /\ n_layers = 0
  /\ layer_call = <<>>
  /\ wrappers_made = 0
  /\ token_type_ids = <<>>
  /\ eos_idx = <<>>
  /\ lengths = <<>>
  /\ mask = <<>>
  /\ forward_calls = 0
  /\ feat_pc = "idle"
  /\ feat_exc = "none"

\* Lines 116-126: HuggingFaceEncoder.__init__.
EncoderInit ==
  /\ feat_pc = "new"
  /\ delimiter_token' = PyOr(tokenizer.sep_token_id, tokenizer.eos_token_id)
  /\ feat_pc' = "ready"
  /\ UNCHANGED <<tokenizer, tokens, low_memory_mode, train, n_layers,
                 layer_call, wrappers_made, token_type_ids, eos_idx, lengths,
                 mask, forward_calls, feat_exc>>
  /\ UNCHANGED <<predictVars, headVars, impVars>>

\* Lines 49-113: finetune_featurizer, up to the exception of line 53 or
\* through the forward pass of line 88.
Featurize ==
  /\ feat_pc = "ready"
  /\ IF tf_equal_error(delimiter_token) # "none"
     THEN /\ feat_pc' = "raised"
          /\ feat_exc' = tf_equal_error(delimiter_token)
          /\ UNCHANGED <<layer_call, wrappers_made, token_type_ids, eos_idx,
                         lengths, mask, forward_calls>>
     ELSE LET delims == [r \in DOMAIN tokens |->
                           Delimiters(tokens[r], delimiter_token)]
              fresh == [l \in 1..n_layers |-> "call"]
          IN /\ token_type_ids' =
                  [r \in DOMAIN tokens |-> token_type_ids_of(delims[r])]
             /\ eos_idx' \in
                  {e \in [DOMAIN tokens -> 0..(MaxSeqLen + 1)] :
                     \A r \in DOMAIN tokens :
                       e[r] \in tf_argmax_choices(MaskedRamp(delims[r]))}
             /\ lengths' =
                  [r \in DOMAIN tokens |->
                     lengths_from_eos_idx(eos_idx'[r], Len(tokens[r]))]
             /\ mask' =
                  [r \in DOMAIN tokens |->
                     sequence_mask(lengths'[r], Len(tokens[r]))]
             /\ layer_call' = LowMemoryLayers(fresh, low_memory_mode, train)
             /\ wrappers_made' = WrappersMade(fresh, low_memory_mode, train)
             /\ forward_calls' = forward_calls + 1
             /\ feat_pc' = "done"
             /\ feat_exc' = "none"
  /\ UNCHANGED <<tokenizer, delimiter_token, tokens, low_memory_mode, train,
                 n_layers>>
  /\ UNCHANGED <<predictVars, headVars, impVars>>

\* ------------------------------------------------------------------------
\* load_weights_from_hdf5_group_by_name
\* ------------------------------------------------------------------------
\* Strings are sequences of characters.
Alphabet == {"a", "b"}

WeightNames == UNION {[1..n -> Alphabet] : n \in 1..MaxNameLen}

\* A layer group: the weight names of its weight_names attribute, in order.
LayerGroups(n) == UNION {[1..k -> WeightNames] : k \in 0..n}

\* The layers of an archive: one group of up to two weights, or two groups
\* of up to one weight each.
LayerLists ==
  {<<g>> : g \in LayerGroups(2)}
    \cup {<<g, h>> : g \in LayerGroups(1), h \in LayerGroups(1)}

\* A flat archive has the layer_names attribute and its layer groups at
\* the root; a nested one has them in the model_weights subgroup.
Files ==
  {[has_layer_names |-> TRUE, has_model_weights |-> FALSE,
    root_layers |-> ls, model_weights_layers |-> <<>>] : ls \in LayerLists}
    \cup
  {[has_layer_names |-> FALSE, has_model_weights |-> TRUE,
    root_layers |-> <<>>, model_weights_layers |-> ls] : ls \in LayerLists}

Froms == {<<"a">>, <<"b">>, <<"a", "b">>}

Tos == {<<>>, <<"b">>}

Rules == [fro : Froms, to : Tos]

\* The array stored as dataset name of layer group l.
ArrayOf(l, name) == [layer |-> l, dataset |-> name]

\* str.replace(fro, to) for a non-empty fro: every occurrence, found left to
\* right, an occurrence starting only after the end of the previous one.
RECURSIVE str_replace(_, _, _)
str_replace(str, fro, to) ==
  IF Len(str) < Len(fro) THEN str
  ELSE IF SubSeq(str, 1, Len(fro)) = fro
       THEN to \o str_replace(SubSeq(str, Len(fro) + 1, Len(str)), fro, to)
       ELSE <<Head(str)>> \o str_replace(Tail(str), fro, to)

\* Lines 31-32: each rule rewrites the output of the rule before it.
RECURSIVE RewriteLoop(_, _, _)
RewriteLoop(name, output_name, rules) ==
  IF rules = <<>> THEN output_name
  ELSE RewriteLoop(
         name, str_replace(output_name, Head(rules).fro, Head(rules).to),
         Tail(rules))

\* The loop of lines 31-32 with every rule applied to name instead of
\* output_name.
RECURSIVE RewriteFromOriginal(_, _, _)
RewriteFromOriginal(name, output_name, rules) ==
  IF rules = <<>> THEN output_name
  ELSE RewriteFromOriginal(
         name, str_replace(name, Head(rules).fro, Head(rules).to), Tail(rules))

OutputNameFromOriginal(name, rules) == RewriteFromOriginal(name, name, rules)

\* Lines 30-32 for one weight name.
OutputName(name, rules) == RewriteLoop(name, name, rules)

\* Lines 20-24: the group whose layer_names are read, the root of a flat
\* archive or its model_weights subgroup.
LayerGroupsOf(f) ==
  IF ~f.has_layer_names /\ f.has_model_weights
  THEN f.model_weights_layers
  ELSE f.root_layers

\* Lines 27-29: the (layer, weight name) pairs in the order the two loops
\* visit them.
RECURSIVE WeightOrderFrom(_, _)
WeightOrderFrom(layers, l) ==
  IF l > Len(layers) THEN <<>>
  ELSE [k \in DOMAIN layers[l] |-> [layer |-> l, name |-> layers[l][k]]]
         \o WeightOrderFrom(layers, l + 1)

WeightOrder(f) == WeightOrderFrom(LayerGroupsOf(f), 1)

\* Line 33: weight_lookup[output_name] = np.asarray(g[name]).
Store(lookup, key, arr) ==
  [k \in DOMAIN lookup \cup {key} |-> IF k = key THEN arr ELSE lookup[k]]

ImportInit ==
  /\ file \in Files
  /\ weights_replacement \in SeqsUpTo(Rules, MaxRules)
  /\ weight_lookup = <<>>
  /\ done_weights = 0
  /\ imp_pc = "loading"

ImportIdle ==
  /\ file = [has_layer_names |-> TRUE, has_model_weights |-> FALSE,
             root_layers |-> <<>>, model_weights_layers |-> <<>>]
  /\ weights_replacement = <<>>
  /\ weight_lookup = <<>>
  /\ done_weights = 0
  /\ imp_pc = "idle"

\* Lines 29-33: one iteration of the inner loop.
StoreWeight ==
  /\ imp_pc = "loading"
  /\ done_weights < Len(WeightOrder(file))
  /\ LET w == WeightOrder(file)[done_weights + 1]
     IN weight_lookup' =
          Store(weight_lookup, OutputName(w.name, weights_replacement),
                ArrayOf(w.layer, w.name))
  /\ done_weights' = done_weights + 1
  /\ UNCHANGED <<file, weights_replacement, imp_pc>>
  /\ UNCHANGED <<predictVars, headVars, featVars>>

\* Line 34: the loops are over and weight_lookup is returned.
ImportReturn ==
  /\ imp_pc = "loading"
  /\ done_weights = Len(WeightOrder(file))
  /\ imp_pc' = "returned"
  /\ UNCHANGED <<file, weights_replacement, weight_lookup, done_weights>>
  /\ UNCHANGED <<predictVars, headVars, featVars>>

\* ------------------------------------------------------------------------
\* Specifications
\* ------------------------------------------------------------------------
PredictNext == PredictStep \/ PredictReturn

InitPredict == PredictInit /\ HeadIdle /\ FeatIdle /\ ImportIdle

SpecPredict == InitPredict /\ [][PredictNext]_vars

HeadNext == Finetune \/ PredictProba \/ TargetModel

InitHead == HeadInit /\ PredictIdle /\ FeatIdle /\ ImportIdle

SpecHead == InitHead /\ [][HeadNext]_vars

FeatNext == EncoderInit \/ Featurize

InitFeat == FeatInit /\ PredictIdle /\ HeadIdle /\ ImportIdle

SpecFeat == InitFeat /\ [][FeatNext]_vars

ImportNext == StoreWeight \/ ImportReturn

InitImport == ImportInit /\ PredictIdle /\ HeadIdle /\ FeatIdle

SpecImport == InitImport /\ [][ImportNext]_vars

\* ------------------------------------------------------------------------
\* Properties of OrdinalRegressor.predict
\* ------------------------------------------------------------------------
EndsUpTo(n) == {i \in 1..n : chunks[i].end_of_doc}

StartsUpTo(n) == {i \in 1..n : chunks[i].start_of_doc}

\* C1: the number of labels predict has emitted equals the number of
\* end_of_doc tuples among the tuples the loop has finished, at every step,
\* and a returned list has one label per end_of_doc tuple of the whole stream.
C1_LabelCountIsEndOfDocCount ==
  /\ Len(all_labels) = Cardinality(EndsUpTo(idx))
  /\ pc = "returned" =>
       /\ idx = Len(chunks)
       /\ Len(all_labels) = Cardinality(EndsUpTo(Len(chunks)))

C1_Witness ==
  /\ pc = "returned"
  /\ Len(all_labels) = 2
  /\ Len(chunks) = 3

\* Every document's chunks are contiguous, the first one flagged
\* start_of_doc, the last one end_of_doc, and no other chunk is flagged.
WellFormed ==
  /\ Len(chunks) > 0 => chunks[Len(chunks)].end_of_doc
  /\ \A i \in 1..Len(chunks) :
       chunks[i].start_of_doc <=> (i = 1 \/ chunks[i - 1].end_of_doc)

\* The position of the last chunk of the k-th document.
DocEnd(k) ==
  CHOOSE i \in EndsUpTo(Len(chunks)) : Cardinality(EndsUpTo(i)) = k

DocFirst(k) == IF k = 1 THEN 1 ELSE DocEnd(k - 1) + 1

\* The per-chunk labels of the k-th document, first chunk to last.
DocChunkLabels(k) ==
  [j \in 1..(DocEnd(k) - DocFirst(k) + 1) |-> chunks[DocFirst(k) + j - 1].label]

\* m occurs in s at least as often as every other value, and every value
\* that occurs as often is not below m.
LowestMostFrequent(m, s) ==
  /\ CountOf(s, m) > 0
  /\ \A v \in Labels :
       \/ CountOf(s, v) < CountOf(s, m)
       \/ (CountOf(s, v) = CountOf(s, m) /\ m <= v)

\* C2: on a well-formed stream the k-th emitted label is the decode of the
\* most frequent label among the chunks of the k-th document, the lowest
\* such label on a tie, and the decode of the chunk's own label for a
\* single-chunk document.
C2_LabelIsDecodedLowestMode ==
  WellFormed =>
    /\ pc # "raised"
    /\ \A k \in 1..Len(all_labels) :
         /\ \E m \in Labels :
              /\ LowestMostFrequent(m, DocChunkLabels(k))
              /\ all_labels[k] = <<ClassOf(m)>>
         /\ DocFirst(k) = DocEnd(k) =>
              all_labels[k] = <<ClassOf(chunks[DocEnd(k)].label)>>

C2_Witness ==
  /\ WellFormed
  /\ pc = "returned"
  /\ Len(chunks) = 3
  /\ Len(all_labels) = 2
  /\ DocEnd(1) = 2
  /\ chunks[1].label = 2
  /\ chunks[2].label = 1
  /\ all_labels = <<(<<ClassOf(1)>>), (<<ClassOf(chunks[3].label)>>)>>

\* No document is open after the first n tuples: no start_of_doc yet, or
\* the latest end_of_doc is not before the latest start_of_doc.
NoDocOpen(n) ==
  \/ StartsUpTo(n) = {}
  \/ /\ EndsUpTo(n) # {}
     /\ SetMax(EndsUpTo(n)) >= SetMax(StartsUpTo(n))

\* C3: a tuple without start_of_doc that arrives while no document is open
\* makes predict raise, with no label added for it, and a predict that has
\* raised returns nothing afterwards.
C3_OrphanChunkRaises ==
  [][/\ (/\ pc = "loop"
         /\ idx < Len(chunks)
         /\ ~chunks[idx + 1].start_of_doc
         /\ NoDocOpen(idx))
        => (/\ pc' = "raised"
            /\ exc' # "none"
            /\ idx' = idx
            /\ all_labels' = all_labels)
     /\ pc = "raised" => pc' = "raised"]_vars

C3_Witness ==
  /\ pc = "raised"
  /\ exc = "AttributeError"
  /\ idx = 1
  /\ Len(all_labels) = 1
  /\ chunks[2].end_of_doc

\* Two start_of_doc tuples with no end_of_doc tuple from the first up to the
\* second.
DoubleStart ==
  \E i, j \in 1..Len(chunks) :
    /\ i < j
    /\ chunks[i].start_of_doc
    /\ chunks[j].start_of_doc
    /\ \A k \in i..(j - 1) : ~chunks[k].end_of_doc

\* C4: predict never returns a result for a stream with two start_of_doc
\* tuples and no end_of_doc tuple between them.
C4_DoubleStartNeverReturns ==
  DoubleStart => pc # "returned"

\* ------------------------------------------------------------------------
\* Properties of the model object
\* ------------------------------------------------------------------------
\* The same dict with the two documents of every pair exchanged.
SwapDocs(fs) == [key \in DOMAIN fs |-> <<fs[key][2], fs[key][1]>>]

\* C5: what the comparison _target_model leaves in features,
\* sequence_features and context, and hands to the ordinal head, is what it
\* would leave for the same pair with its two documents exchanged.
C5_ComparisonTransformSymmetric ==
  (tm_done /\ cls = "ComparisonOrdinalRegressor") =>
    /\ DOMAIN featurizer_state = DOMAIN featurizer_in
    /\ featurizer_state = ComparisonTransform(SwapDocs(featurizer_in))
    /\ hidden = ComparisonTransform(SwapDocs(featurizer_in))["features"]

C5_Witness ==
  /\ tm_done
  /\ cls = "ComparisonOrdinalRegressor"
  /\ "context" \in DOMAIN featurizer_in
  /\ featurizer_in["features"] = <<(<<1>>), (<<0>>)>>
  /\ featurizer_in["context"] = <<(<<0 - 1>>), (<<0>>)>>
  /\ hidden = <<1>>
  /\ featurizer_state["context"] = <<1>>

NoDelimiterConfigured ==
  tokenizer.sep_token_id = None /\ tokenizer.eos_token_id = None

\* C7: with a tokenizer that has neither a separator nor an end-of-sequence
\* token id, delimiter_token is None and finetune_featurizer ends by raising,
\* with the wrapped model not called and eos_idx, lengths and the mask not
\* computed.
C7_NoDelimiterRaisesBeforeForward ==
  [][(NoDelimiterConfigured /\ feat_pc = "ready" /\ feat_pc' # "ready") =>
       /\ delimiter_token = None
       /\ feat_pc' = "raised"
       /\ feat_exc' # "none"
       /\ forward_calls' = 0
       /\ eos_idx' = <<>>
       /\ lengths' = <<>>
       /\ mask' = <<>>]_vars

C7_Witness ==
  /\ NoDelimiterConfigured
  /\ feat_pc = "raised"
  /\ feat_exc = "ValueError"
  /\ forward_calls = 0

\* The zero-based positions of the delimiter token in row r.
DelimiterPositions(r) ==
  {i - 1 : i \in {j \in DOMAIN tokens[r] : tokens[r][j] = delimiter_token}}

\* C9 as stated: eos_idx is the position of the first delimiter token of
\* every sequence that has one.
C9_EosIdxIsFirstDelimiter ==
  feat_pc = "done" =>
    \A r \in DOMAIN tokens :
      DelimiterPositions(r) # {} => eos_idx[r] = SetMin(DelimiterPositions(r))

\* C9 amended: eos_idx is the position of the last delimiter token of every
\* sequence that has a delimiter after position zero.
C9_EosIdxIsLastDelimiter ==
  feat_pc = "done" =>
    \A r \in DOMAIN tokens :
      (DelimiterPositions(r) # {} /\ SetMax(DelimiterPositions(r)) > 0) =>
        eos_idx[r] = SetMax(DelimiterPositions(r))

C9_Witness ==
  /\ feat_pc = "done"
  /\ DelimiterPositions(1) = {0, 2}
  /\ eos_idx[1] = 2
  /\ lengths[1] = 3

\* C10: after finetune_featurizer has run with low_memory_mode and train
\* both true, every encoder layer's call is the recompute_grad wrapper, and
\* otherwise every layer's call is the original one.
C10_LowMemoryWrapsEveryLayer ==
  feat_pc = "done" =>
    \A l \in DOMAIN layer_call :
      layer_call[l] =
        IF low_memory_mode /\ train THEN "recompute_grad" ELSE "call"

\* ------------------------------------------------------------------------
\* Properties of load_weights_from_hdf5_group_by_name
\* ------------------------------------------------------------------------
\* The name after the first n rules, each applied to the output of the rule
\* before it.
RECURSIVE RewrittenAfter(_, _)
RewrittenAfter(name, n) ==
  IF n = 0 THEN name
  ELSE str_replace(RewrittenAfter(name, n - 1),
                   weights_replacement[n].fro, weights_replacement[n].to)

Rewritten(name) == RewrittenAfter(name, Len(weights_replacement))

\* Every weight of every layer group of the archive, wherever its layout
\* keeps them.
ArchiveLayers == file.root_layers \o file.model_weights_layers

ArchiveWeights ==
  UNION {{[layer |-> l, name |-> ArchiveLayers[l][k]] :
            k \in DOMAIN ArchiveLayers[l]} : l \in DOMAIN ArchiveLayers}

\* C8: the returned lookup has exactly the rewritten names of the archive's
\* weights as keys, and under each key the array of a weight whose rewritten
\* name is that key; while the loops run, the same holds of the weights
\* stored so far.
C8_LookupKeysAreRewrittenNames ==
  /\ \A k \in DOMAIN weight_lookup :
       \E w \in ArchiveWeights :
         /\ Rewritten(w.name) = k
         /\ weight_lookup[k] = ArrayOf(w.layer, w.name)
  /\ imp_pc = "returned" =>
       DOMAIN weight_lookup = {Rewritten(w.name) : w \in ArchiveWeights}

C8_Witness ==
  /\ imp_pc = "returned"
  /\ file.has_model_weights
  /\ ArchiveLayers = <<(<<(<<"a", "a">>)>>), (<<(<<"a", "b">>)>>)>>
  /\ weights_replacement =
       <<[fro |-> <<"a">>, to |-> <<"b">>], [fro |-> <<"a", "b">>, to |-> <<>>]>>
  /\ DOMAIN weight_lookup = {<<"b", "b">>}
  /\ weight_lookup[<<"b", "b">>] = ArrayOf(2, <<"a", "b">>)

====
